---- MODULE Spec2Model ----
(***************************************************************************)
(* Hostel management backend (Express + node-sqlite3, one shared database  *)
(* connection `db`).  Every HTTP handler is a chain of callbacks; each     *)
(* callback runs after one SQL statement has executed on the shared        *)
(* connection.  One action of this model = one SQL statement executing     *)
(* atomically on the connection followed by the JavaScript of its callback *)
(* (which either responds or issues the next statement).  Statements of    *)
(* different requests interleave freely.                                   *)
(*                                                                         *)
(* Dates are ISO day strings in the code; here a date string is the number *)
(* of its UTC day, and a JavaScript Date is a record [day, ms] (UTC day    *)
(* and milliseconds into the day).  Money (REAL columns) is counted in     *)
(* thousandths of a rupee so that rounding to two decimals is an actual    *)
(* operation.                                                              *)
(*                                                                         *)
(* BEGIN TRANSACTION, ROLLBACK and the release's COMMIT are issued without *)
(* a callback.  node-sqlite3 emits the failure of such a statement as an   *)
(* 'error' event; the server registers no listener, so the process dies    *)
(* (Crash).  The store is a file: a transaction open at that moment is     *)
(* never committed.                                                        *)
(***************************************************************************)
EXTENDS Integers, Sequences, FiniteSets, TLC

VARIABLES
    db,       \* the tables as the shared connection currently sees them
    txn,      \* the connection's open transaction: [open, snap, applied]
    pc,       \* per request slot: the statement that is pending
    loc,      \* per request slot: the handler's closure variables and response
    applied,  \* history: which of a transfer's three writes are in the store
    pre,      \* history: the store when the system was last quiescent, i.e. when
              \* the first of the requests now in flight was received
    ops,      \* history: the kinds of request received so far
    today,    \* the current UTC day (date('now') / startOfTodayUTC)
    nreq,     \* number of requests received so far
    mode      \* workload: [serial, faults, billing] (fixed during a run)

vars == <<db, txn, pc, loc, applied, pre, ops, today, nreq, mode>>

----------------------------------------------------------------------------
(* Bounds of the model *)

MaxRequests == 2         \* requests received in a run
MaxPaidDay == 66         \* billing runs: latest day of the payment on record at the
                         \* start, and the day on which the run starts
MaxTicks == 1            \* billing runs: midnights that pass during the run
StartDay == 35           \* the day on which the other runs happen

Procs == {1, 2}          \* request slots (requests in flight at once)
StudentIds == {1, 2}
RoomIds == {1, 2}

(* Program constants *)

MAX_MONTHLY_FEE == 500000
MAX_ROOM_CAPACITY == 50
Null == -1000000          \* JavaScript null / undefined, SQL NULL (outside every range used)

PKR(n) == n * 1000       \* a rupee amount in thousandths

Beds(n) == n * 2         \* a capacity in half beds: Number(body.capacity) need not be whole

----------------------------------------------------------------------------
(* Rows and tables *)

NoRoom == [exists |-> FALSE, capacity |-> 0, current_occupancy |-> 0,
           monthly_fee |-> 0, room_type |-> ""]

Room(cap, occ, fee, type) ==
    [exists |-> TRUE, capacity |-> cap, current_occupancy |-> occ,
     monthly_fee |-> fee, room_type |-> type]

AllocationsOf(d, s) == {a \in d.Allocations : a.student_id = s}

AllocationsIn(d, r) == {a \in d.Allocations : a.room_id = r}

RECURSIVE SetToSeq(_)
\* rows of a result set in rowid order
SetToSeq(S) ==
    IF S = {} THEN <<>>
    ELSE LET m == CHOOSE x \in S : \A y \in S : x.allocation_id <= y.allocation_id
         IN  <<m>> \o SetToSeq(S \ {m})

PaymentsOf(d, s) == {x \in d.Payments : x.student_id = s}

\* a variant of LastPaymentDate that orders by date ASC: the oldest payment
FirstPaymentDate(d, s) ==
    IF PaymentsOf(d, s) = {} THEN Null
    ELSE CHOOSE m \in {x.date : x \in PaymentsOf(d, s)} :
            \A x \in PaymentsOf(d, s) : m <= x.date

\* SELECT date FROM Payments WHERE student_id = ? ORDER BY date DESC LIMIT 1
LastPaymentDate(d, s) ==
    IF PaymentsOf(d, s) = {} THEN Null
    ELSE CHOOSE m \in {x.date : x \in PaymentsOf(d, s)} :
            \A x \in PaymentsOf(d, s) : x.date <= m

EmptyStore ==
    [Students |-> {}, Rooms |-> [r \in RoomIds |-> NoRoom], Allocations |-> {},
     seqAllocations |-> 0, Payments |-> {}, seqPayments |-> 0, Complaints |-> {}]

\* INSERT INTO Allocations(student_id, room_id, allocation_date) VALUES (?, ?, date('now'))
InsertAllocation(d, s, r, date) ==
    [d EXCEPT !.Allocations = @ \cup {[allocation_id |-> d.seqAllocations + 1,
                                      student_id |-> s, room_id |-> r,
                                      allocation_date |-> date]},
              !.seqAllocations = @ + 1]

\* UPDATE Rooms SET current_occupancy = current_occupancy + 1 WHERE room_id = ?
IncrementOccupancy(d, r) ==
    IF d.Rooms[r].exists
    THEN [d EXCEPT !.Rooms[r].current_occupancy = @ + 1]
    ELSE d

\* UPDATE Rooms SET current_occupancy = CASE WHEN current_occupancy > 0
\*   THEN current_occupancy - 1 ELSE 0 END WHERE room_id = ?
DecrementOccupancyFloor(d, r) ==
    IF d.Rooms[r].exists
    THEN [d EXCEPT !.Rooms[r].current_occupancy = IF @ > 0 THEN @ - 1 ELSE 0]
    ELSE d

\* UPDATE Rooms SET current_occupancy = current_occupancy - 1
\*   WHERE room_id = ? AND current_occupancy > 0
DecrementOccupancyIfPositive(d, r) ==
    IF d.Rooms[r].exists /\ d.Rooms[r].current_occupancy > 0
    THEN [d EXCEPT !.Rooms[r].current_occupancy = @ - 1]
    ELSE d

\* a variant of UpdateAllocation that leaves allocation_date as it was
UpdateAllocationKeepsDate(d, id, r, date) ==
    [d EXCEPT !.Allocations =
        {IF a.allocation_id = id THEN [a EXCEPT !.room_id = r] ELSE a : a \in @}]

\* UPDATE Allocations SET room_id = ?, allocation_date = date('now') WHERE allocation_id = ?
UpdateAllocation(d, id, r, date) ==
    [d EXCEPT !.Allocations =
        {IF a.allocation_id = id
         THEN [a EXCEPT !.room_id = r, !.allocation_date = date]
         ELSE a : a \in @}]

\* INSERT INTO Payments(student_id, amount, date) VALUES (?, ?, date('now'))
InsertPayment(d, s, amt, date) ==
    [d EXCEPT !.Payments = @ \cup {[payment_id |-> d.seqPayments + 1, student_id |-> s,
                                    amount |-> amt, date |-> date]},
              !.seqPayments = @ + 1]

----------------------------------------------------------------------------
(* Billing derivation (pure functions) *)

DAY_MS == 24 * 60 * 60 * 1000

NullDate == [day |-> Null, ms |-> 0]

startOfTodayUTC(now) == [day |-> now.day, ms |-> 0]

parseDbDate(value) == IF value # Null THEN [day |-> value, ms |-> 0] ELSE NullDate

formatDateISO(dateObj) == IF dateObj # NullDate THEN dateObj.day ELSE Null

\* a variant of addDays that counts the start day as the first of the period
addDaysInclusive(dateObj, days) == [day |-> dateObj.day + days - 1, ms |-> dateObj.ms]

addDays(dateObj, days) == [day |-> dateObj.day + days, ms |-> dateObj.ms]

\* Math.floor((a - b) / DAY_MS) for two Dates
FloorDays(a, b) == (a.day - b.day) + ((a.ms - b.ms) \div DAY_MS)

\* a variant of resolveFeeStatus that does not look at hasPayment
resolveFeeStatusNoPending(rawDaysLate, hasPayment) ==
    IF rawDaysLate = Null \/ rawDaysLate <= 0 THEN "Paid"
    ELSE IF rawDaysLate <= 5 THEN "Late"
    ELSE IF rawDaysLate <= 30 THEN "Defaulter"
    ELSE "Critical Defaulter"

\* a variant of resolveFeeStatus whose Late band ends one day earlier
resolveFeeStatusLateBelow5(rawDaysLate, hasPayment) ==
    IF ~hasPayment THEN "Payment Pending"
    ELSE IF rawDaysLate = Null \/ rawDaysLate <= 0 THEN "Paid"
    ELSE IF rawDaysLate < 5 THEN "Late"
    ELSE IF rawDaysLate <= 30 THEN "Defaulter"
    ELSE "Critical Defaulter"

\* a variant of resolveFeeStatus that is already Late on the due date
resolveFeeStatusLateOnDueDate(rawDaysLate, hasPayment) ==
    IF ~hasPayment THEN "Payment Pending"
    ELSE IF rawDaysLate = Null \/ rawDaysLate < 0 THEN "Paid"
    ELSE IF rawDaysLate <= 5 THEN "Late"
    ELSE IF rawDaysLate <= 30 THEN "Defaulter"
    ELSE "Critical Defaulter"

resolveFeeStatus(rawDaysLate, hasPayment) ==
    IF ~hasPayment THEN "Payment Pending"
    ELSE IF rawDaysLate = Null \/ rawDaysLate <= 0 THEN "Paid"
    ELSE IF rawDaysLate <= 5 THEN "Late"
    ELSE IF rawDaysLate <= 30 THEN "Defaulter"
    ELSE "Critical Defaulter"

NoAllocRow == [allocation_date |-> Null, monthly_fee |-> Null, room_type |-> ""]

NoSnapshot == [student_id |-> Null]

\* the callback of buildFeeSnapshot's second query: the snapshot handed to the caller
FeeSnapshot(studentId, allocRow, lastPaymentDate, now) ==
    LET monthlyFee == allocRow.monthly_fee
        todayD == startOfTodayUTC(now)
        lastPayment == parseDbDate(lastPaymentDate)
        hasPayment == lastPayment # NullDate
        dueDate == IF hasPayment THEN addDays(lastPayment, 30) ELSE NullDate
        rawDaysLate == IF hasPayment THEN FloorDays(todayD, dueDate) ELSE Null
        daysLate == IF rawDaysLate # Null /\ rawDaysLate > 0 THEN rawDaysLate ELSE 0
        fine == IF daysLate > 0 THEN PKR(daysLate * 100) ELSE 0
    IN  [student_id |-> studentId,
         monthly_fee |-> monthlyFee,
         room_type |-> allocRow.room_type,
         allocation_date |-> allocRow.allocation_date,
         last_payment_date |-> lastPaymentDate,
         due_date |-> IF dueDate # NullDate THEN formatDateISO(dueDate) ELSE Null,
         days_late |-> daysLate,
         fine |-> fine,
         total_payable |-> monthlyFee + fine,
         fee_status |-> resolveFeeStatus(rawDaysLate, hasPayment),
         today |-> formatDateISO(todayD)]

\* Math.round(x * 100) / 100
Round2(x) == ((x + 5) \div 10) * 10

----------------------------------------------------------------------------
(* Requests in flight *)

Resp(status, message) ==
    [status |-> status, message |-> message, from_room_id |-> Null,
     to_room_id |-> Null, id |-> Null, fee_status |-> NoSnapshot]

NoResp == Resp(0, "")

NoLoc ==
    [op |-> "none", student_id |-> Null, room_id |-> Null, capacity |-> Null,
     monthly_fee |-> Null, amount |-> Null,
     allocation_id |-> Null, oldRoomId |-> Null, roomIds |-> <<>>, index |-> 0,
     allocRow |-> NoAllocRow, snapshot |-> NoSnapshot, expected |-> Null,
     lastID |-> Null, paid |-> FALSE, resp |-> NoResp, at |-> ""]

NoTxn == [open |-> FALSE, snap |-> EmptyStore, applied |-> [p \in Procs |-> {}]]

InFlight(p) == pc[p] \notin {"idle", "done"}

Quiescent == \A p \in Procs : ~InFlight(p)

\* a storage failure may be injected into any statement that has an error callback
Faults == IF mode.faults THEN BOOLEAN ELSE {FALSE}

\* a request can be received on slot p (the lowest slot with no request in flight)
CanReceive(p) ==
    /\ ~InFlight(p)
    /\ \A q \in Procs : q < p => InFlight(q)
    /\ nreq < MaxRequests
    /\ mode.serial => Quiescent
    /\ \A q \in Procs : pc[q] # "crashed"

\* the request received on slot p, with its parsed parameters
Receive(p, l, first) ==
    /\ CanReceive(p)
    /\ loc' = [loc EXCEPT ![p] = l]
    /\ pc' = [pc EXCEPT ![p] = first]
    /\ applied' = [applied EXCEPT ![p] = {}]
    /\ txn' = [txn EXCEPT !.applied[p] = {}]
    /\ pre' = IF Quiescent THEN db ELSE pre
    /\ ops' = ops \cup {l.op}
    /\ nreq' = nreq + 1
    /\ UNCHANGED <<db, today, mode>>

\* res.status(..).json(..) in a callback whose closure variables are l: the
\* handler is finished
RespondFrom(p, l, r) ==
    /\ loc' = [loc EXCEPT ![p] =
                 [NoLoc EXCEPT !.op = l.op, !.student_id = l.student_id,
                               !.room_id = l.room_id, !.capacity = l.capacity,
                               !.monthly_fee = l.monthly_fee,
                               !.amount = l.amount, !.lastID = l.lastID,
                               !.snapshot = l.snapshot, !.resp = r]]
    /\ pc' = [pc EXCEPT ![p] = "done"]

Respond(p, r) == RespondFrom(p, loc[p], r)

\* a request rejected by the handler before any statement is issued
Reject(p, l, r) == Receive(p, [l EXCEPT !.resp = r], "done")

\* the callback issued the next statement
Goto(p, label, l) ==
    /\ loc' = [loc EXCEPT ![p] = l]
    /\ pc' = [pc EXCEPT ![p] = label]

----------------------------------------------------------------------------
(* POST /allocate *)

AllocateRequest(p, s, r) ==
    Receive(p, [NoLoc EXCEPT !.op = "allocate", !.student_id = s, !.room_id = r],
            "allocate_student")

\* SELECT student_id FROM Students WHERE student_id = ?
AllocateStudent(p) ==
    /\ pc[p] = "allocate_student"
    /\ \E studentErr \in Faults :
         IF studentErr THEN Respond(p, Resp(500, "Error verifying student"))
         ELSE IF loc[p].student_id \notin db.Students
              THEN Respond(p, Resp(404, "Student does not exist"))
              ELSE Goto(p, "allocate_allocation", loc[p])
    /\ UNCHANGED <<db, txn, applied, pre, ops, today, nreq, mode>>

\* SELECT allocation_id FROM Allocations WHERE student_id = ?
AllocateAllocation(p) ==
    /\ pc[p] = "allocate_allocation"
    /\ \E allocationErr \in Faults :
         IF allocationErr THEN Respond(p, Resp(500, "Error checking allocation"))
         ELSE IF AllocationsOf(db, loc[p].student_id) # {}
              THEN Respond(p, Resp(400, "Student is already allocated to a room"))
              ELSE Goto(p, "allocate_room", loc[p])
    /\ UNCHANGED <<db, txn, applied, pre, ops, today, nreq, mode>>

\* a variant of AllocateRoom that turns a room away only above its capacity
AllocateRoomAboveCapacity(p) ==
    /\ pc[p] = "allocate_room"
    /\ LET room == db.Rooms[loc[p].room_id] IN
       \E err \in Faults :
         IF err THEN Respond(p, Resp(500, "Error fetching room"))
         ELSE IF ~room.exists THEN Respond(p, Resp(404, "Room does not exist"))
         ELSE IF Beds(room.current_occupancy) > room.capacity
              THEN Respond(p, Resp(400, "Room is full"))
              ELSE Goto(p, "allocate_insert", loc[p])
    /\ UNCHANGED <<db, txn, applied, pre, ops, today, nreq, mode>>

\* SELECT capacity, current_occupancy FROM Rooms WHERE room_id = ?
AllocateRoom(p) ==
    /\ pc[p] = "allocate_room"
    /\ LET room == db.Rooms[loc[p].room_id] IN
       \E err \in Faults :
         IF err THEN Respond(p, Resp(500, "Error fetching room"))
         ELSE IF ~room.exists THEN Respond(p, Resp(404, "Room does not exist"))
         ELSE IF Beds(room.current_occupancy) >= room.capacity
              THEN Respond(p, Resp(400, "Room is full"))
              ELSE Goto(p, "allocate_insert", loc[p])
    /\ UNCHANGED <<db, txn, applied, pre, ops, today, nreq, mode>>

\* INSERT INTO Allocations(student_id, room_id, allocation_date) VALUES (?, ?, date('now'))
AllocateInsert(p) ==
    /\ pc[p] = "allocate_insert"
    /\ \E err2 \in Faults :
         IF err2
         THEN /\ Respond(p, Resp(500, "Error allocating student"))
              /\ db' = db
         ELSE /\ db' = InsertAllocation(db, loc[p].student_id, loc[p].room_id, today)
              /\ Goto(p, "allocate_increment",
                      [loc[p] EXCEPT !.lastID = db.seqAllocations + 1])
    /\ UNCHANGED <<txn, applied, pre, ops, today, nreq, mode>>

\* UPDATE Rooms SET current_occupancy = current_occupancy + 1 WHERE room_id = ?
AllocateIncrement(p) ==
    /\ pc[p] = "allocate_increment"
    /\ \E err3 \in Faults :
         IF err3
         THEN /\ Respond(p, Resp(500, "Error updating room"))
              /\ db' = db
         ELSE /\ db' = IncrementOccupancy(db, loc[p].room_id)
              /\ Respond(p, Resp(200, "Student allocated successfully"))
    /\ UNCHANGED <<txn, applied, pre, ops, today, nreq, mode>>

----------------------------------------------------------------------------
(* Transactions on the shared connection *)

\* BEGIN TRANSACTION has succeeded: the store as it was is what ROLLBACK restores
Begin == [open |-> TRUE, snap |-> db, applied |-> applied]

\* a variant of Crash in which the writes of the open transaction stay in the store
CrashKeepsWrites ==
    /\ UNCHANGED <<db, applied>>
    /\ txn' = NoTxn
    /\ pc' = [q \in Procs |-> IF InFlight(q) THEN "crashed" ELSE pc[q]]
    /\ loc' = [q \in Procs |-> IF InFlight(q) THEN [loc[q] EXCEPT !.at = pc[q]] ELSE loc[q]]

\* a statement issued without a callback has failed (BEGIN inside a transaction,
\* ROLLBACK or COMMIT outside one): the error is emitted as an 'error' event that
\* nothing listens to, and the server process dies. Requests in flight are never
\* answered further, and the open transaction is never committed.
\* (loc[q].at keeps the statement each request was cut off at.)
Crash ==
    /\ db' = IF txn.open THEN txn.snap ELSE db
    /\ applied' = IF txn.open THEN txn.applied ELSE applied
    /\ txn' = NoTxn
    /\ pc' = [q \in Procs |-> IF InFlight(q) THEN "crashed" ELSE pc[q]]
    /\ loc' = [q \in Procs |-> IF InFlight(q) THEN [loc[q] EXCEPT !.at = pc[q]] ELSE loc[q]]

\* db.run("ROLLBACK"); res.status(status).json({ message }): ROLLBACK is issued
\* without a callback and the response is written; the statement is still pending
RollbackWith(p, r) ==
    /\ loc' = [loc EXCEPT ![p].resp = r]
    /\ pc' = [pc EXCEPT ![p] = "rollback"]

\* a statement of request p failed with a storage error and its callback rolls
\* back: the failure left the transaction open, or the store has already rolled
\* the whole transaction back by itself
Failed(p, r) ==
    /\ RollbackWith(p, r)
    /\ \/ UNCHANGED <<db, applied, txn>>
       \/ /\ txn.open
          /\ db' = txn.snap
          /\ applied' = txn.applied
          /\ txn' = NoTxn

\* a variant of Rollback that closes the transaction but keeps its writes
RollbackKeepsWrites(p) ==
    /\ pc[p] = "rollback"
    /\ txn' = NoTxn
    /\ Respond(p, loc[p].resp)
    /\ UNCHANGED <<db, applied, pre, ops, today, nreq, mode>>

\* ROLLBACK executes
Rollback(p) ==
    /\ pc[p] = "rollback"
    /\ IF txn.open
       THEN /\ db' = txn.snap
            /\ applied' = txn.applied
            /\ txn' = NoTxn
            /\ Respond(p, loc[p].resp)
       ELSE Crash
    /\ UNCHANGED <<pre, ops, today, nreq, mode>>

----------------------------------------------------------------------------
(* POST /transfer-room *)

TransferRoomRequest(p, s, r) ==
    Receive(p, [NoLoc EXCEPT !.op = "transfer", !.student_id = s, !.room_id = r],
            "transfer_begin")

\* db.serialize: BEGIN TRANSACTION; SELECT student_id FROM Students WHERE student_id = ?
TransferBegin(p) ==
    /\ pc[p] = "transfer_begin"
    /\ IF txn.open THEN Crash
       ELSE \E errStudent \in Faults :
              /\ UNCHANGED <<db, applied>>
              /\ IF errStudent
                 THEN /\ RollbackWith(p, Resp(500, "Error verifying student"))
                      /\ txn' \in {Begin, NoTxn}
                 ELSE /\ txn' = Begin
                      /\ IF loc[p].student_id \notin db.Students
                         THEN RollbackWith(p, Resp(404, "Student does not exist"))
                         ELSE Goto(p, "transfer_allocation", loc[p])
    /\ UNCHANGED <<pre, ops, today, nreq, mode>>

\* SELECT allocation_id, room_id FROM Allocations WHERE student_id = ?
TransferAllocation(p) ==
    /\ pc[p] = "transfer_allocation"
    /\ \E errAlloc \in Faults :
         IF errAlloc THEN Failed(p, Resp(500, "Error checking allocation"))
         ELSE /\ UNCHANGED <<db, applied, txn>>
              /\ IF AllocationsOf(db, loc[p].student_id) = {}
                 THEN RollbackWith(p, Resp(400, "Student is not allocated to any room"))
                 ELSE \E allocation \in AllocationsOf(db, loc[p].student_id) :
                        Goto(p, "transfer_room",
                             [loc[p] EXCEPT !.allocation_id = allocation.allocation_id,
                                            !.oldRoomId = allocation.room_id])
    /\ UNCHANGED <<pre, ops, today, nreq, mode>>

\* a variant of TransferNewRoom that looks at the free beds before the room's identity
TransferNewRoomFullFirst(p) ==
    /\ pc[p] = "transfer_room"
    /\ LET room == db.Rooms[loc[p].room_id] IN
       \E errRoom \in Faults :
         IF errRoom THEN Failed(p, Resp(500, "Error fetching new room"))
         ELSE /\ UNCHANGED <<db, applied, txn>>
              /\ IF ~room.exists THEN RollbackWith(p, Resp(404, "Room does not exist"))
                 ELSE IF Beds(room.current_occupancy) >= room.capacity
                      THEN RollbackWith(p, Resp(400, "New room is full"))
                 ELSE IF loc[p].oldRoomId = loc[p].room_id
                      THEN RollbackWith(p, Resp(400, "Student is already in this room"))
                 ELSE Goto(p, "transfer_update", loc[p])
    /\ UNCHANGED <<pre, ops, today, nreq, mode>>

\* SELECT capacity, current_occupancy FROM Rooms WHERE room_id = ?
TransferNewRoom(p) ==
    /\ pc[p] = "transfer_room"
    /\ LET room == db.Rooms[loc[p].room_id] IN
       \E errRoom \in Faults :
         IF errRoom THEN Failed(p, Resp(500, "Error fetching new room"))
         ELSE /\ UNCHANGED <<db, applied, txn>>
              /\ IF ~room.exists THEN RollbackWith(p, Resp(404, "Room does not exist"))
                 ELSE IF loc[p].oldRoomId = loc[p].room_id
                      THEN RollbackWith(p, Resp(400, "Student is already in this room"))
                 ELSE IF Beds(room.current_occupancy) >= room.capacity
                      THEN RollbackWith(p, Resp(400, "New room is full"))
                 ELSE Goto(p, "transfer_update", loc[p])
    /\ UNCHANGED <<pre, ops, today, nreq, mode>>

\* a variant of TransferUpdateAllocation that starts the resident's billing afresh
TransferUpdateAllocationResetsBilling(p) ==
    /\ pc[p] = "transfer_update"
    /\ \E errUpdateAlloc \in Faults :
         IF errUpdateAlloc THEN Failed(p, Resp(500, "Error updating allocation"))
         ELSE /\ db' = [UpdateAllocation(db, loc[p].allocation_id, loc[p].room_id, today)
                          EXCEPT !.Payments = @ \ PaymentsOf(db, loc[p].student_id)]
              /\ applied' = IF \E a \in db.Allocations : a.allocation_id = loc[p].allocation_id
                            THEN [applied EXCEPT ![p] = @ \cup {"allocation"}]
                            ELSE applied
              /\ txn' = txn
              /\ Goto(p, "transfer_decrement", loc[p])
    /\ UNCHANGED <<pre, ops, today, nreq, mode>>

\* UPDATE Allocations SET room_id = ?, allocation_date = date('now') WHERE allocation_id = ?
TransferUpdateAllocation(p) ==
    /\ pc[p] = "transfer_update"
    /\ \E errUpdateAlloc \in Faults :
         IF errUpdateAlloc THEN Failed(p, Resp(500, "Error updating allocation"))
         ELSE /\ db' = UpdateAllocation(db, loc[p].allocation_id, loc[p].room_id, today)
              /\ applied' = IF \E a \in db.Allocations : a.allocation_id = loc[p].allocation_id
                            THEN [applied EXCEPT ![p] = @ \cup {"allocation"}]
                            ELSE applied
              /\ txn' = txn
              /\ Goto(p, "transfer_decrement", loc[p])
    /\ UNCHANGED <<pre, ops, today, nreq, mode>>

\* UPDATE Rooms SET current_occupancy = CASE .. - 1 .. END WHERE room_id = oldRoomId
TransferDecrement(p) ==
    /\ pc[p] = "transfer_decrement"
    /\ \E errDec \in Faults :
         IF errDec THEN Failed(p, Resp(500, "Error updating old room occupancy"))
         ELSE /\ db' = DecrementOccupancyFloor(db, loc[p].oldRoomId)
              /\ applied' = IF db.Rooms[loc[p].oldRoomId].exists
                            THEN [applied EXCEPT ![p] = @ \cup {"decrement"}]
                            ELSE applied
              /\ txn' = txn
              /\ Goto(p, "transfer_increment", loc[p])
    /\ UNCHANGED <<pre, ops, today, nreq, mode>>

\* UPDATE Rooms SET current_occupancy = current_occupancy + 1 WHERE room_id = newRoomId
TransferIncrement(p) ==
    /\ pc[p] = "transfer_increment"
    /\ \E errInc \in Faults :
         IF errInc THEN Failed(p, Resp(500, "Error updating new room occupancy"))
         ELSE /\ db' = IncrementOccupancy(db, loc[p].room_id)
              /\ applied' = IF db.Rooms[loc[p].room_id].exists
                            THEN [applied EXCEPT ![p] = @ \cup {"increment"}]
                            ELSE applied
              /\ txn' = txn
              /\ Goto(p, "transfer_commit", loc[p])
    /\ UNCHANGED <<pre, ops, today, nreq, mode>>

\* COMMIT, with a callback: it fails when no transaction is open any more
TransferCommit(p) ==
    /\ pc[p] = "transfer_commit"
    /\ \E errCommit \in Faults :
         IF errCommit \/ ~txn.open
         THEN Failed(p, Resp(500, "Error committing transfer"))
         ELSE /\ txn' = NoTxn
              /\ UNCHANGED <<db, applied>>
              /\ Respond(p, [Resp(200, "Room transfer successful")
                               EXCEPT !.from_room_id = loc[p].oldRoomId,
                                      !.to_room_id = loc[p].room_id])
    /\ UNCHANGED <<pre, ops, today, nreq, mode>>

----------------------------------------------------------------------------
(* DELETE /students/:id *)

DeleteStudentRequest(p, s) ==
    Receive(p, [NoLoc EXCEPT !.op = "deleteStudent", !.student_id = s],
            "delete_student_begin")

\* db.serialize: BEGIN TRANSACTION; SELECT student_id FROM Students WHERE student_id = ?
DeleteStudentBegin(p) ==
    /\ pc[p] = "delete_student_begin"
    /\ IF txn.open THEN Crash
       ELSE \E err \in Faults :
              /\ UNCHANGED <<db, applied>>
              /\ IF err
                 THEN /\ RollbackWith(p, Resp(500, "Error deleting student"))
                      /\ txn' \in {Begin, NoTxn}
                 ELSE /\ txn' = Begin
                      /\ IF loc[p].student_id \notin db.Students
                         THEN RollbackWith(p, Resp(404, "Student not found"))
                         ELSE Goto(p, "delete_student_allocations", loc[p])
    /\ UNCHANGED <<pre, ops, today, nreq, mode>>

\* SELECT room_id FROM Allocations WHERE student_id = ?   (db.all), then updateRooms(0)
DeleteStudentAllocations(p) ==
    /\ pc[p] = "delete_student_allocations"
    /\ LET rows == SetToSeq(AllocationsOf(db, loc[p].student_id))
           roomIds == [i \in 1..Len(rows) |-> rows[i].room_id]
       IN \E err2 \in Faults :
            IF err2 THEN Failed(p, Resp(500, "Error deleting student"))
            ELSE /\ UNCHANGED <<db, applied, txn>>
                 /\ Goto(p, IF 0 >= Len(roomIds) THEN "delete_dependent_allocations"
                            ELSE "update_rooms",
                         [loc[p] EXCEPT !.roomIds = roomIds, !.index = 0])
    /\ UNCHANGED <<pre, ops, today, nreq, mode>>

\* updateRooms(index): UPDATE Rooms SET current_occupancy = current_occupancy - 1
\*   WHERE room_id = ? AND current_occupancy > 0, then updateRooms(index + 1)
UpdateRooms(p) ==
    /\ pc[p] = "update_rooms"
    /\ LET roomId == loc[p].roomIds[loc[p].index + 1] IN
       \E upErr \in Faults :
         IF upErr THEN Failed(p, Resp(500, "Error deleting student"))
         ELSE /\ db' = DecrementOccupancyIfPositive(db, roomId)
              /\ UNCHANGED <<applied, txn>>
              /\ Goto(p, IF loc[p].index + 1 >= Len(loc[p].roomIds)
                         THEN "delete_dependent_allocations" ELSE "update_rooms",
                      [loc[p] EXCEPT !.index = @ + 1])
    /\ UNCHANGED <<pre, ops, today, nreq, mode>>

\* deleteDependentRows: DELETE FROM Allocations WHERE student_id = ?
DeleteAllocations(p) ==
    /\ pc[p] = "delete_dependent_allocations"
    /\ \E delAllocErr \in Faults :
         IF delAllocErr THEN Failed(p, Resp(500, "Error deleting student"))
         ELSE /\ db' = [db EXCEPT !.Allocations = @ \ AllocationsOf(db, loc[p].student_id)]
              /\ UNCHANGED <<applied, txn>>
              /\ Goto(p, "delete_dependent_payments", loc[p])
    /\ UNCHANGED <<pre, ops, today, nreq, mode>>

\* a variant of DeletePayments whose DELETE has no WHERE clause
DeletePaymentsOfEveryone(p) ==
    /\ pc[p] = "delete_dependent_payments"
    /\ \E delPaymentsErr \in Faults :
         IF delPaymentsErr THEN Failed(p, Resp(500, "Error deleting student"))
         ELSE /\ db' = [db EXCEPT !.Payments = {}]
              /\ UNCHANGED <<applied, txn>>
              /\ Goto(p, "delete_dependent_complaints", loc[p])
    /\ UNCHANGED <<pre, ops, today, nreq, mode>>

\* DELETE FROM Payments WHERE student_id = ?
DeletePayments(p) ==
    /\ pc[p] = "delete_dependent_payments"
    /\ \E delPaymentsErr \in Faults :
         IF delPaymentsErr THEN Failed(p, Resp(500, "Error deleting student"))
         ELSE /\ db' = [db EXCEPT !.Payments = @ \ PaymentsOf(db, loc[p].student_id)]
              /\ UNCHANGED <<applied, txn>>
              /\ Goto(p, "delete_dependent_complaints", loc[p])
    /\ UNCHANGED <<pre, ops, today, nreq, mode>>

\* DELETE FROM Complaints WHERE student_id = ?
DeleteComplaints(p) ==
    /\ pc[p] = "delete_dependent_complaints"
    /\ \E delComplErr \in Faults :
         IF delComplErr THEN Failed(p, Resp(500, "Error deleting student"))
         ELSE /\ db' = [db EXCEPT !.Complaints =
                           {c \in @ : c.student_id # loc[p].student_id}]
              /\ UNCHANGED <<applied, txn>>
              /\ Goto(p, "delete_student_row", loc[p])
    /\ UNCHANGED <<pre, ops, today, nreq, mode>>

\* DELETE FROM Students WHERE student_id = ?; on success db.run('COMMIT') is issued
\* without a callback and the response is written
DeleteStudentRow(p) ==
    /\ pc[p] = "delete_student_row"
    /\ \E delStudentErr \in Faults :
         IF delStudentErr THEN Failed(p, Resp(500, "Error deleting student"))
         ELSE /\ db' = [db EXCEPT !.Students = @ \ {loc[p].student_id}]
              /\ UNCHANGED <<applied, txn>>
              /\ Goto(p, "commit",
                      [loc[p] EXCEPT !.resp =
                          Resp(200, "Student and related records deleted successfully")])
    /\ UNCHANGED <<pre, ops, today, nreq, mode>>

\* COMMIT executes
Commit(p) ==
    /\ pc[p] = "commit"
    /\ IF txn.open
       THEN /\ txn' = NoTxn
            /\ UNCHANGED <<db, applied>>
            /\ Respond(p, loc[p].resp)
       ELSE Crash
    /\ UNCHANGED <<pre, ops, today, nreq, mode>>

----------------------------------------------------------------------------
(* PUT /rooms/:id and DELETE /rooms/:id *)

\* validateRoomPayload(body, { requireAll: false }) for the capacity and monthly_fee
\* fields (Null: the field is absent from the body)
RoomPayloadValid(capacity, monthly_fee) ==
    /\ capacity # Null => ~(capacity <= 0 \/ capacity > Beds(MAX_ROOM_CAPACITY))
    /\ monthly_fee # Null => ~(monthly_fee < 0 \/ monthly_fee > PKR(MAX_MONTHLY_FEE))

UpdateRoomRequest(p, r, capacity, monthly_fee) ==
    LET l == [NoLoc EXCEPT !.op = "updateRoom", !.room_id = r,
                           !.capacity = capacity, !.monthly_fee = monthly_fee]
    IN  IF ~RoomPayloadValid(capacity, monthly_fee)
        THEN Reject(p, l, Resp(400, "Invalid room payload"))
        ELSE IF capacity = Null /\ monthly_fee = Null
        THEN Reject(p, l, Resp(400, "No updates provided"))
        ELSE Receive(p, l, "update_room_select")

\* SELECT current_occupancy, capacity FROM Rooms WHERE room_id = ?
UpdateRoomSelect(p) ==
    /\ pc[p] = "update_room_select"
    /\ LET room == db.Rooms[loc[p].room_id] IN
       \E err \in Faults :
         IF err THEN Respond(p, Resp(500, "Error fetching room"))
         ELSE IF ~room.exists THEN Respond(p, Resp(404, "Room not found"))
         ELSE IF loc[p].capacity # Null /\ loc[p].capacity < Beds(room.current_occupancy)
              THEN Respond(p, Resp(400, "Capacity cannot be less than current occupancy"))
              ELSE Goto(p, "update_room_run", loc[p])
    /\ UNCHANGED <<db, txn, applied, pre, ops, today, nreq, mode>>

\* proceedUpdate: UPDATE Rooms SET capacity = ?, monthly_fee = ? WHERE room_id = ?
UpdateRoomRun(p) ==
    /\ pc[p] = "update_room_run"
    /\ LET r == loc[p].room_id IN
       \E updateErr \in Faults :
         IF updateErr
         THEN /\ Respond(p, Resp(500, "Error updating room"))
              /\ db' = db
         ELSE IF ~db.Rooms[r].exists
         THEN /\ Respond(p, Resp(404, "Room not found or no changes provided"))
              /\ db' = db
         ELSE /\ db' = [db EXCEPT
                          !.Rooms[r].capacity =
                              IF loc[p].capacity # Null THEN loc[p].capacity ELSE @,
                          !.Rooms[r].monthly_fee =
                              IF loc[p].monthly_fee # Null THEN loc[p].monthly_fee ELSE @]
              /\ Respond(p, Resp(200, "Room updated successfully"))
    /\ UNCHANGED <<txn, applied, pre, ops, today, nreq, mode>>

DeleteRoomRequest(p, r) ==
    Receive(p, [NoLoc EXCEPT !.op = "deleteRoom", !.room_id = r], "delete_room_select")

\* SELECT current_occupancy FROM Rooms WHERE room_id = ?
DeleteRoomSelect(p) ==
    /\ pc[p] = "delete_room_select"
    /\ LET room == db.Rooms[loc[p].room_id] IN
       \E err \in Faults :
         IF err THEN Respond(p, Resp(500, "Error deleting room"))
         ELSE IF ~room.exists THEN Respond(p, Resp(404, "Room not found"))
         ELSE IF room.current_occupancy > 0
              THEN Respond(p, Resp(400, "Cannot delete a room with allocated students"))
              ELSE Goto(p, "delete_room_run", loc[p])
    /\ UNCHANGED <<db, txn, applied, pre, ops, today, nreq, mode>>

\* DELETE FROM Rooms WHERE room_id = ?
DeleteRoomRun(p) ==
    /\ pc[p] = "delete_room_run"
    /\ LET r == loc[p].room_id IN
       \E delErr \in Faults :
         IF delErr
         THEN /\ Respond(p, Resp(500, "Error deleting room"))
              /\ db' = db
         ELSE IF ~db.Rooms[r].exists
         THEN /\ Respond(p, Resp(404, "Room not found"))
              /\ db' = db
         ELSE /\ db' = [db EXCEPT !.Rooms[r] = NoRoom]
              /\ Respond(p, Resp(200, "Room deleted successfully"))
    /\ UNCHANGED <<txn, applied, pre, ops, today, nreq, mode>>

----------------------------------------------------------------------------
(* buildFeeSnapshot, POST /payments/add, GET /students/:id/fee-status *)

\* rows of Allocations JOIN Rooms ON Rooms.room_id = Allocations.room_id for a student
JoinedAllocations(d, s) ==
    {[allocation_date |-> a.allocation_date,
      monthly_fee |-> d.Rooms[a.room_id].monthly_fee,
      room_type |-> d.Rooms[a.room_id].room_type] :
        a \in {x \in AllocationsOf(d, s) : d.Rooms[x.room_id].exists}}

\* the instants of a day at which new Date() may be taken
Instants(day) == {[day |-> day, ms |-> 0], [day |-> day, ms |-> DAY_MS - 1]}

\* what the caller of buildFeeSnapshot does with callback(err)
SnapshotFailed(p, status, message) ==
    IF loc[p].op = "addPayment" /\ loc[p].paid
    THEN Respond(p, [Resp(200, "Payment recorded") EXCEPT !.id = loc[p].lastID])
    ELSE Respond(p, Resp(status, message))

\* the reason /payments/add gives for an amount that does not match
MismatchReason(snapshot) ==
    IF snapshot.last_payment_date = Null THEN "First payment must match the monthly fee."
    ELSE IF snapshot.days_late > 0 THEN "Includes late fee."
    ELSE "Payment must match the monthly fee for this billing cycle."

\* a variant of SnapshotBuilt that turns away only amounts below the expected one
SnapshotBuiltAcceptsExtra(p, snapshot) ==
    IF loc[p].op = "addPayment" /\ loc[p].paid
    THEN Respond(p, [Resp(200, "Payment recorded")
                       EXCEPT !.id = loc[p].lastID, !.fee_status = snapshot])
    ELSE IF loc[p].op = "addPayment"
    THEN LET expected == Round2(snapshot.total_payable)
             provided == Round2(loc[p].amount)
         IN  IF provided < expected
             THEN RespondFrom(p, [loc[p] EXCEPT !.snapshot = snapshot],
                              Resp(400, MismatchReason(snapshot)))
             ELSE Goto(p, "payment_insert",
                       [loc[p] EXCEPT !.snapshot = snapshot, !.expected = expected])
    ELSE Respond(p, [Resp(200, "") EXCEPT !.fee_status = snapshot])

\* what the caller of buildFeeSnapshot does with callback(null, snapshot)
SnapshotBuilt(p, snapshot) ==
    IF loc[p].op = "addPayment" /\ loc[p].paid
    THEN Respond(p, [Resp(200, "Payment recorded")
                       EXCEPT !.id = loc[p].lastID, !.fee_status = snapshot])
    ELSE IF loc[p].op = "addPayment"
    THEN LET expected == Round2(snapshot.total_payable)
             provided == Round2(loc[p].amount)
         IN  IF provided # expected
             THEN RespondFrom(p, [loc[p] EXCEPT !.snapshot = snapshot],
                              Resp(400, MismatchReason(snapshot)))
             ELSE Goto(p, "payment_insert",
                       [loc[p] EXCEPT !.snapshot = snapshot, !.expected = expected])
    ELSE Respond(p, [Resp(200, "") EXCEPT !.fee_status = snapshot])

\* a variant of BuildFeeSnapshotAllocation without the test for a missing row
BuildFeeSnapshotAllocationNoRowCheck(p) ==
    /\ pc[p] = "snapshot_allocation"
    /\ \E allocErr \in Faults :
         IF allocErr THEN SnapshotFailed(p, 500, "Error verifying allocation")
         ELSE IF JoinedAllocations(db, loc[p].student_id) = {}
         THEN SnapshotFailed(p, 500, "Room fee is not configured for this allocation")
         ELSE \E allocRow \in JoinedAllocations(db, loc[p].student_id) :
                IF allocRow.monthly_fee <= 0
                THEN SnapshotFailed(p, 500,
                         "Room fee is not configured for this allocation")
                ELSE Goto(p, "snapshot_payment", [loc[p] EXCEPT !.allocRow = allocRow])
    /\ UNCHANGED <<db, txn, applied, pre, ops, today, nreq, mode>>

\* SELECT Allocations.allocation_date, Rooms.monthly_fee, Rooms.room_type
\*   FROM Allocations JOIN Rooms .. WHERE Allocations.student_id = ?
BuildFeeSnapshotAllocation(p) ==
    /\ pc[p] = "snapshot_allocation"
    /\ \E allocErr \in Faults :
         IF allocErr THEN SnapshotFailed(p, 500, "Error verifying allocation")
         ELSE IF JoinedAllocations(db, loc[p].student_id) = {}
         THEN SnapshotFailed(p, 400,
                  "Student must be allocated to a room before paying fees")
         ELSE \E allocRow \in JoinedAllocations(db, loc[p].student_id) :
                IF allocRow.monthly_fee <= 0
                THEN SnapshotFailed(p, 500,
                         "Room fee is not configured for this allocation")
                ELSE Goto(p, "snapshot_payment", [loc[p] EXCEPT !.allocRow = allocRow])
    /\ UNCHANGED <<db, txn, applied, pre, ops, today, nreq, mode>>

\* a variant of BuildFeeSnapshotPayment whose query has no ORDER BY: any payment row
BuildFeeSnapshotPaymentUnordered(p) ==
    /\ pc[p] = "snapshot_payment"
    /\ \E paymentErr \in Faults :
         IF paymentErr THEN SnapshotFailed(p, 500, "Error fetching payment history")
         ELSE \E now \in Instants(today) :
              \E date \in {x.date : x \in PaymentsOf(db, loc[p].student_id)}
                          \cup {LastPaymentDate(db, loc[p].student_id)} :
                SnapshotBuilt(p, FeeSnapshot(loc[p].student_id, loc[p].allocRow, date, now))
    /\ UNCHANGED <<db, txn, applied, pre, ops, today, nreq, mode>>

\* SELECT date FROM Payments WHERE student_id = ? ORDER BY date DESC LIMIT 1
BuildFeeSnapshotPayment(p) ==
    /\ pc[p] = "snapshot_payment"
    /\ \E paymentErr \in Faults :
         IF paymentErr THEN SnapshotFailed(p, 500, "Error fetching payment history")
         ELSE \E now \in Instants(today) :
                SnapshotBuilt(p, FeeSnapshot(loc[p].student_id, loc[p].allocRow,
                                             LastPaymentDate(db, loc[p].student_id), now))
    /\ UNCHANGED <<db, txn, applied, pre, ops, today, nreq, mode>>

AddPaymentRequest(p, s, amount) ==
    LET l == [NoLoc EXCEPT !.op = "addPayment", !.student_id = s, !.amount = amount]
    IN  IF amount <= 0 \/ amount > PKR(MAX_MONTHLY_FEE)
        THEN Reject(p, l, Resp(400, "Invalid payment amount"))
        ELSE Receive(p, l, "payment_student")

\* SELECT student_id FROM Students WHERE student_id = ?   (both handlers)
SnapshotStudent(p) ==
    /\ pc[p] = "payment_student"
    /\ \E err \in Faults :
         IF err THEN Respond(p, Resp(500, "Error verifying student"))
         ELSE IF loc[p].student_id \notin db.Students
              THEN Respond(p, Resp(404, "Student does not exist"))
              ELSE Goto(p, "snapshot_allocation", loc[p])
    /\ UNCHANGED <<db, txn, applied, pre, ops, today, nreq, mode>>

\* INSERT INTO Payments(student_id, amount, date) VALUES (?, ?, date('now'))
AddPaymentInsert(p) ==
    /\ pc[p] = "payment_insert"
    /\ \E insertErr \in Faults :
         IF insertErr
         THEN /\ Respond(p, Resp(500, "Error recording payment"))
              /\ db' = db
         ELSE /\ db' = InsertPayment(db, loc[p].student_id, loc[p].expected, today)
              /\ Goto(p, "snapshot_allocation",
                      [loc[p] EXCEPT !.lastID = db.seqPayments + 1, !.paid = TRUE])
    /\ UNCHANGED <<txn, applied, pre, ops, today, nreq, mode>>

FeeStatusRequest(p, s) ==
    Receive(p, [NoLoc EXCEPT !.op = "feeStatus", !.student_id = s], "payment_student")

----------------------------------------------------------------------------
(* Time *)

\* midnight UTC passes
Tick ==
    /\ today < MaxPaidDay + MaxTicks
    /\ today' = today + 1
    /\ UNCHANGED <<db, txn, pc, loc, applied, pre, ops, nreq, mode>>

----------------------------------------------------------------------------
(* Initial stores: both students registered, two rooms, every student in    *)
(* at most one room, occupancy counters equal to the allocations, and the   *)
(* allocated students either all unpaid or all paid once on paidDay.        *)

RoomFee(r) == IF r = 1 THEN PKR(5000) ELSE PKR(3000)

RoomType(r) == IF r = 1 THEN "Standard" ELSE "Deluxe"

InitStore(cap, where, paid, paidDay) ==
    [Students |-> StudentIds,
     Rooms |-> [r \in RoomIds |->
                  Room(Beds(cap[r]), Cardinality({s \in StudentIds : where[s] = r}),
                       RoomFee(r), RoomType(r))],
     Allocations |-> {[allocation_id |-> s, student_id |-> s, room_id |-> where[s],
                       allocation_date |-> 0] : s \in {x \in StudentIds : where[x] # 0}},
     seqAllocations |-> Cardinality(StudentIds),
     Payments |-> {[payment_id |-> s, student_id |-> s, amount |-> RoomFee(where[s]),
                    date |-> paidDay] : s \in paid},
     seqPayments |-> Cardinality(StudentIds),
     Complaints |-> {[complaint_id |-> 1, student_id |-> 1]}]

WellFormedStore(d) ==
    /\ \A r \in RoomIds : Beds(d.Rooms[r].current_occupancy) <= d.Rooms[r].capacity
    /\ \A r \in RoomIds : d.Rooms[r].current_occupancy = Cardinality(AllocationsIn(d, r))
    /\ LET allocated == {a.student_id : a \in d.Allocations}
           payers == {x.student_id : x \in d.Payments}
       IN  payers = {} \/ payers = allocated

InitStores(wheres, paidDays) ==
    {d \in {InitStore([r \in RoomIds |-> IF r = 1 THEN 2 ELSE 1], where, paid, paidDay) :
                where \in wheres, paid \in SUBSET StudentIds, paidDay \in paidDays} :
        WellFormedStore(d)}

InitWith(m, day, stores) ==
    /\ db \in stores
    /\ txn = NoTxn
    /\ pc = [p \in Procs |-> "idle"]
    /\ loc = [p \in Procs |-> NoLoc]
    /\ applied = [p \in Procs |-> {}]
    /\ pre = db
    /\ ops = {}
    /\ today = day
    /\ nreq = 0
    /\ mode = m

\* amounts a caller may offer: the amount due, one that rounds to it, and wrong ones
Amounts(s) ==
    LET rows == JoinedAllocations(db, s)
        fee == IF rows = {} THEN RoomFee(1) ELSE (CHOOSE x \in rows : TRUE).monthly_fee
        due == FeeSnapshot(s, [NoAllocRow EXCEPT !.monthly_fee = fee],
                           LastPaymentDate(db, s), [day |-> today, ms |-> 0]).total_payable
    IN  IF mode.billing
        THEN {due, due + 4, due + PKR(100), due - PKR(1000), 0}
        ELSE {due, due + PKR(100)}

\* the bodies a caller may send to PUT /rooms/:id: <<capacity, monthly_fee>>; the
\* largest fee and a capacity of one bed and a half are offered where no storage
\* failure is injected
RoomUpdates ==
    IF mode.serial
    THEN {<<Null, Null>>, <<Beds(0), Null>>, <<Beds(1), Null>>, <<Beds(2), Null>>,
          <<Null, 0>>}
         \cup (IF mode.faults THEN {}
               ELSE {<<Null, PKR(MAX_MONTHLY_FEE)>>, <<Beds(1) + 1, Null>>})
    ELSE {<<Beds(1), Null>>, <<Beds(2), Null>>}

\* the statements of /allocate, /transfer-room and DELETE /students/:id
AssignmentStep(p) ==
    \/ AllocateStudent(p) \/ AllocateAllocation(p) \/ AllocateRoom(p)
    \/ AllocateInsert(p) \/ AllocateIncrement(p)
    \/ TransferBegin(p) \/ TransferAllocation(p) \/ TransferNewRoom(p)
    \/ TransferUpdateAllocation(p) \/ TransferDecrement(p) \/ TransferIncrement(p)
    \/ TransferCommit(p) \/ Rollback(p)
    \/ DeleteStudentBegin(p) \/ DeleteStudentAllocations(p) \/ UpdateRooms(p)
    \/ DeleteAllocations(p) \/ DeletePayments(p) \/ DeleteComplaints(p)
    \/ DeleteStudentRow(p) \/ Commit(p)

\* the statements of PUT /rooms/:id and DELETE /rooms/:id
RoomStep(p) ==
    \/ UpdateRoomSelect(p) \/ UpdateRoomRun(p)
    \/ DeleteRoomSelect(p) \/ DeleteRoomRun(p)

Step(p) == AssignmentStep(p) \/ RoomStep(p)

BillingStep(p) ==
    \/ SnapshotStudent(p) \/ BuildFeeSnapshotAllocation(p) \/ BuildFeeSnapshotPayment(p)
    \/ AddPaymentInsert(p)

AssignmentRequest(p) ==
    \/ \E s \in StudentIds, r \in RoomIds : AllocateRequest(p, s, r)
    \/ \E s \in StudentIds, r \in RoomIds : TransferRoomRequest(p, s, r)
    \/ \E s \in StudentIds : DeleteStudentRequest(p, s)

RoomRequest(p) ==
    \/ \E r \in RoomIds, body \in RoomUpdates : UpdateRoomRequest(p, r, body[1], body[2])
    \/ \E r \in RoomIds : DeleteRoomRequest(p, r)

Request(p) == AssignmentRequest(p) \/ RoomRequest(p)

PaymentRequest(p) ==
    \E s \in StudentIds : \E amount \in Amounts(s) : AddPaymentRequest(p, s, amount)

StatusRequest(p) ==
    \E s \in StudentIds : FeeStatusRequest(p, s)

----------------------------------------------------------------------------
(* Spec: concurrent requests on the shared connection, no storage failures *)

AnyWhere == [StudentIds -> {0} \cup RoomIds]

Init ==
    InitWith([serial |-> FALSE, faults |-> FALSE, billing |-> FALSE], StartDay,
             InitStores(AnyWhere, {0}))

Next == \E p \in Procs : Request(p) \/ PaymentRequest(p) \/ Step(p) \/ BillingStep(p)

Spec == Init /\ [][Next]_vars

(* SpecAssignments: concurrent assign, transfer and release requests only *)

NextAssignments == \E p \in Procs : AssignmentRequest(p) \/ AssignmentStep(p)

SpecAssignments == Init /\ [][NextAssignments]_vars

(* SpecSerial: one request at a time, no storage failures *)

InitSerial ==
    InitWith([serial |-> TRUE, faults |-> FALSE, billing |-> FALSE], StartDay,
             InitStores(AnyWhere, {0}))

NextSerial ==
    \E p \in Procs : \/ Request(p) \/ PaymentRequest(p) \/ StatusRequest(p)
                     \/ Step(p) \/ BillingStep(p)

SpecSerial == InitSerial /\ [][NextSerial]_vars

(* SpecFaults: one request at a time, any statement may fail *)

InitFaults ==
    InitWith([serial |-> TRUE, faults |-> TRUE, billing |-> FALSE], StartDay,
             InitStores(AnyWhere, {0}))

SpecFaults == InitFaults /\ [][NextSerial]_vars

(* SpecBilling: payments and fee-status reads, one at a time, as days pass; *)
(* student 1 has a room, student 2 has none                                 *)

InitBilling ==
    InitWith([serial |-> TRUE, faults |-> FALSE, billing |-> TRUE], MaxPaidDay,
             InitStores({w \in AnyWhere : w[1] # 0 /\ \A s \in StudentIds \ {1} : w[s] = 0},
                        0..MaxPaidDay))

NextBilling ==
    \/ Tick
    \/ \E p \in Procs : PaymentRequest(p) \/ StatusRequest(p) \/ BillingStep(p)

SpecBilling == InitBilling /\ [][NextBilling]_vars

----------------------------------------------------------------------------
(* Properties *)

Done(p, op) == pc[p] = "done" /\ loc[p].op = op

Accepted(p, op) == Done(p, op) /\ loc[p].resp.status = 200

Occupancy(d, r) == d.Rooms[r].current_occupancy

\* request p of kind op has been answered; the server may have died since
Answered(p, op) ==
    /\ pc[p] \in {"done", "crashed"}
    /\ loc[p].op = op
    /\ loc[p].resp # NoResp

\* no request is in flight: each one is finished, or was cut off when the server died
Settled == \A p \in Procs : pc[p] \in {"idle", "done", "crashed"}

\* C1: in every reachable state every room has 0 <= occupancy <= capacity.
C1_OccupancyWithinCapacity ==
    \A r \in RoomIds :
        db.Rooms[r].exists => 0 <= Occupancy(db, r) /\ Beds(Occupancy(db, r)) <= db.Rooms[r].capacity

\* two requests of kind op, received one while the other was in flight, with the
\* store as it was when the first of them was received in `pre`
Overlapped(p, q, op) ==
    /\ p # q /\ nreq = 2
    /\ Done(p, op) /\ Done(q, op)

\* C2: of two concurrent assigns of two different unassigned residents to a room
\* with exactly one free bed, at most one succeeds; the other is refused with
\* "Room is full" and gets no Assignment.
C2_LastBedGivenOnce ==
    \A p, q \in Procs :
        LET r == loc[p].room_id IN
        ( /\ Overlapped(p, q, "allocate")
          /\ loc[q].room_id = r
          /\ loc[p].student_id # loc[q].student_id
          /\ {loc[p].student_id, loc[q].student_id} \subseteq pre.Students
          /\ AllocationsOf(pre, loc[p].student_id) = {}
          /\ AllocationsOf(pre, loc[q].student_id) = {}
          /\ pre.Rooms[r].exists
          /\ Beds(Occupancy(pre, r)) = pre.Rooms[r].capacity - Beds(1)
          /\ loc[p].resp.status = 200 )
        => /\ loc[q].resp = Resp(400, "Room is full")
           /\ AllocationsOf(db, loc[q].student_id) = {}

\* C3: in every reachable state each resident has at most one Assignment row.
C3_OneAssignmentPerResident ==
    \A s \in StudentIds : Cardinality(AllocationsOf(db, s)) <= 1

\* C4: whenever no request is in flight and only assign, transfer and release
\* requests have been received, each room's occupancy counter equals the number
\* of Assignment rows referencing the room.
C4_OccupancyCountsAssignments ==
    (Quiescent /\ ops \subseteq {"allocate", "transfer", "deleteStudent"})
    => \A r \in RoomIds :
          db.Rooms[r].exists => Occupancy(db, r) = Cardinality(AllocationsIn(db, r))

\* the errors a transfer reports for a storage failure at one of its mutation steps
TransferMutationFailures ==
    {"Error updating allocation", "Error updating old room occupancy",
     "Error updating new room occupancy", "Error committing transfer"}

\* C5: a transfer that runs alone and hits a storage failure at one of its
\* mutation steps reports an error and leaves the store exactly as it was before
\* the call (occupancies, the Assignment's room and date, everything else).
C5_FailedTransferRestoresStore ==
    \A p \in Procs :
        ( /\ Settled /\ Answered(p, "transfer")
          /\ loc[p].resp.message \in TransferMutationFailures )
        => /\ loc[p].resp.status = 500
           /\ db = pre
           /\ ~txn.open

\* C5 witness: the failure was injected after the old bed was released and before
\* the new one was reserved, in a transfer that was otherwise going to succeed.
C5_Witness ==
    \E p \in Procs :
        /\ Done(p, "transfer")
        /\ loc[p].resp.message = "Error updating new room occupancy"
        /\ \E a \in AllocationsOf(pre, loc[p].student_id) :
              a.room_id # loc[p].room_id /\ Occupancy(pre, a.room_id) > 0
        /\ db = pre

C7_NoDoublePayment ==
    \A p, q \in Procs :
        ( /\ p # q
          /\ Accepted(p, "addPayment") /\ Accepted(q, "addPayment")
          /\ loc[p].student_id = loc[q].student_id )
        => loc[p].snapshot # loc[q].snapshot

\* the billing snapshots the handlers have built: those a fee-status read or an
\* accepted payment returned, and those a payment's amount was compared with
Snapshots ==
    {x \in {loc[p].resp.fee_status : p \in Procs} \cup {loc[p].snapshot : p \in Procs} :
        x # NoSnapshot}

\* the snapshots of residents who have paid at least once
PaidSnapshots == {x \in Snapshots : x.last_payment_date # Null}

\* whole days from the last payment to the snapshot's today
Age(x) == x.today - x.last_payment_date

\* C8 as stated: with lastPaymentDate = D and monthlyFee = 5000 the snapshot is
\* Paid at D+29, Late with fine 100 at D+31, Defaulter with fine 500 at D+35 and
\* Critical Defaulter with fine 3100 at D+61.
C8_StaircaseAsStated ==
    \A x \in PaidSnapshots :
        x.monthly_fee = PKR(5000) =>
          /\ Age(x) = 29 => x.fee_status = "Paid"
          /\ Age(x) = 31 => x.fee_status = "Late" /\ x.fine = PKR(100)
          /\ Age(x) = 35 => x.fee_status = "Defaulter" /\ x.fine = PKR(500)
          /\ Age(x) = 61 => x.fee_status = "Critical Defaulter" /\ x.fine = PKR(3100)

\* C8 amended: with lastPaymentDate = D and monthlyFee = 5000 the snapshot is
\* Paid at D+29, Late with fine 100 at D+31, Late with fine 500 at D+35 (five
\* days late is still Late) and Critical Defaulter with fine 3100 at D+61.
C8_Staircase ==
    \A x \in PaidSnapshots :
        x.monthly_fee = PKR(5000) =>
          /\ Age(x) = 29 => x.fee_status = "Paid" /\ x.fine = 0
          /\ Age(x) = 31 => x.fee_status = "Late" /\ x.fine = PKR(100)
          /\ Age(x) = 35 => x.fee_status = "Late" /\ x.fine = PKR(500)
          /\ Age(x) = 61 => x.fee_status = "Critical Defaulter" /\ x.fine = PKR(3100)

\* C8 witness: a fee-status read at D+35 for a resident of the 5000 room.
C8_Witness ==
    \E p \in Procs :
        /\ Accepted(p, "feeStatus")
        /\ loc[p].resp.fee_status.monthly_fee = PKR(5000)
        /\ loc[p].resp.fee_status.last_payment_date # Null
        /\ Age(loc[p].resp.fee_status) = 35
        /\ loc[p].resp.fee_status.fine = PKR(500)

\* the status the classification table gives for a number of days late
StatusOf(daysLate) ==
    IF daysLate = 0 THEN "Paid"
    ELSE IF daysLate <= 5 THEN "Late"
    ELSE IF daysLate <= 30 THEN "Defaulter"
    ELSE "Critical Defaulter"

\* C9: once a payment exists the snapshot's status is a function of daysLate
\* alone: 0 (today on or before lastPaymentDate + 30) is Paid, 1..5 Late, 6..30
\* Defaulter, more than 30 Critical Defaulter; it is never Payment Pending.
C9_StatusByDaysLate ==
    \A x \in PaidSnapshots :
        /\ x.fee_status = StatusOf(x.days_late)
        /\ x.today <= x.last_payment_date + 30 => x.days_late = 0 /\ x.fee_status = "Paid"
        /\ x.fee_status # "Payment Pending"

\* C9 witness: a snapshot of a resident who has paid, taken on the due date itself.
C9_Witness ==
    \E x \in PaidSnapshots :
        /\ x.today = x.last_payment_date + 30
        /\ x.days_late = 0 /\ x.fee_status = "Paid"

\* C10: with last payment date L, monthly fee F and today T in whole days,
\* dueDate = L + 30, daysLate = max(0, T - dueDate), fine = 100 * daysLate and
\* totalPayable = F + fine; the fine is 0 exactly when daysLate is 0.
C10_FineArithmetic ==
    \A x \in PaidSnapshots :
        LET dueDate == x.last_payment_date + 30
            late == IF x.today - dueDate > 0 THEN x.today - dueDate ELSE 0
        IN  /\ x.due_date = dueDate
            /\ x.days_late = late
            /\ x.fine = PKR(100 * x.days_late)
            /\ x.total_payable = x.monthly_fee + x.fine
            /\ x.fine = 0 <=> x.days_late = 0

\* C10 witness: a payment accepted against a snapshot that carried a fine, taken
\* late in its day.
C10_Witness ==
    \E p \in Procs :
        /\ Accepted(p, "addPayment")
        /\ loc[p].snapshot # NoSnapshot
        /\ loc[p].snapshot.last_payment_date # Null
        /\ loc[p].snapshot.days_late > 1
        /\ loc[p].amount = loc[p].snapshot.monthly_fee + PKR(100 * loc[p].snapshot.days_late)

\* the room a resident is assigned to in store d (residents with one Assignment)
RoomOf(d, s) == (CHOOSE a \in AllocationsOf(d, s) : TRUE).room_id

\* C11: the snapshot of an assigned resident with no Payment on record has no due
\* date, status Payment Pending, daysLate 0, fine 0 and totalPayable equal to the
\* room's monthly fee, whatever today is and however long ago the assignment was.
C11_NoPaymentSnapshot ==
    \A x \in Snapshots :
        x.last_payment_date = Null
        => /\ x.due_date = Null
           /\ x.fee_status = "Payment Pending"
           /\ x.days_late = 0
           /\ x.fine = 0
           /\ AllocationsOf(db, x.student_id) # {}
           /\ x.total_payable = db.Rooms[RoomOf(db, x.student_id)].monthly_fee

\* C11 witness: a fee-status read, more than two billing periods after the
\* assignment, for a resident who has never paid.
C11_Witness ==
    \E p \in Procs :
        /\ Accepted(p, "feeStatus")
        /\ loc[p].resp.fee_status.last_payment_date = Null
        /\ loc[p].resp.fee_status.today > loc[p].resp.fee_status.allocation_date + 60
        /\ loc[p].resp.fee_status.total_payable > 0

\* the reasons /payments/add gives for an amount that does not match
MismatchReasons ==
    {"First payment must match the monthly fee.", "Includes late fee.",
     "Payment must match the monthly fee for this billing cycle."}

\* C12: a payment whose amount, rounded to two decimals, differs from the rounded
\* totalPayable of the snapshot it is compared with (smaller or larger) is
\* answered 400 with the mismatch message and leaves the store unchanged.
C12_WrongAmountRejected ==
    \A p \in Procs :
        ( /\ Done(p, "addPayment")
          /\ loc[p].snapshot # NoSnapshot
          /\ Round2(loc[p].amount) # Round2(loc[p].snapshot.total_payable) )
        => /\ loc[p].resp.status = 400
           /\ loc[p].resp.message \in MismatchReasons
           /\ db = pre

\* C12 witness: 5100 offered when 5000 is payable.
C12_Witness ==
    \E p \in Procs :
        /\ Done(p, "addPayment")
        /\ loc[p].snapshot # NoSnapshot
        /\ loc[p].snapshot.total_payable = PKR(5000)
        /\ loc[p].amount = PKR(5100)
        /\ loc[p].resp.status = 400

\* store d with the payment log (and its id counter) of store e
WithPaymentsOf(d, e) == [d EXCEPT !.Payments = e.Payments, !.seqPayments = e.seqPayments]

\* resident s of store d has a billing snapshot: a room with a positive fee
HasSnapshot(d, s) == \E row \in JoinedAllocations(d, s) : row.monthly_fee > 0

\* what resident s owes in store d on the given day: total_payable of the snapshot
TotalPayable(d, s, day) ==
    FeeSnapshot(s, CHOOSE row \in JoinedAllocations(d, s) : TRUE,
                LastPaymentDate(d, s), [day |-> day, ms |-> 0]).total_payable

\* C13: for an assigned resident, a payment whose amount equals the totalPayable
\* of the resident's current snapshot (first payment, renewal on time, or late
\* renewal with the fine) is accepted and adds exactly one Payment for that
\* resident, with that amount and dated today; nothing else in the store changes.
C13_MatchingPaymentAppended ==
    \A p \in Procs :
        ( /\ Done(p, "addPayment")
          /\ HasSnapshot(pre, loc[p].student_id)
          /\ loc[p].amount = TotalPayable(pre, loc[p].student_id, today) )
        => /\ loc[p].resp.status = 200
           /\ pre.Payments \subseteq db.Payments
           /\ \E row \in db.Payments \ pre.Payments :
                 /\ db.Payments \ pre.Payments = {row}
                 /\ row.payment_id = loc[p].resp.id
                 /\ row.student_id = loc[p].student_id
                 /\ row.amount = loc[p].amount
                 /\ row.date = today
           /\ WithPaymentsOf(db, pre) = pre

\* the snapshot x reports a cycle that was paid on the day pay
PaidOn(x, pay) ==
    /\ x.fee_status = "Paid"
    /\ x.days_late = 0
    /\ x.fine = 0
    /\ x.last_payment_date = pay
    /\ x.due_date = pay + 30
    /\ x.total_payable = x.monthly_fee

\* C14: an accepted payment returns a snapshot that is Paid, with no days late
\* and no fine, whose last payment date is the day of the payment and whose due
\* date is 30 days later; and every snapshot returned for a resident on a day
\* on which that resident has paid says the same, with that day as today.
C14_PaidAfterPayment ==
    \A p \in Procs :
        LET x == loc[p].resp.fee_status
        IN  /\ Accepted(p, "addPayment")
               => /\ x # NoSnapshot
                  /\ \E row \in PaymentsOf(db, loc[p].student_id) :
                        row.payment_id = loc[p].resp.id /\ PaidOn(x, row.date)
            /\ ( /\ pc[p] = "done"
                 /\ x # NoSnapshot
                 /\ \E row \in PaymentsOf(db, x.student_id) : row.date = x.today )
               => PaidOn(x, x.today)

\* C14 witness: a resident whose first payment of 3000 was accepted asks for the
\* fee status later the same day.
C14_Witness ==
    \E p \in Procs :
        /\ Accepted(p, "feeStatus")
        /\ "addPayment" \in ops
        /\ \E row \in PaymentsOf(db, loc[p].student_id) :
              /\ PaymentsOf(db, loc[p].student_id) = {row}
              /\ row.payment_id > Cardinality(StudentIds)
              /\ row.amount = PKR(3000)
              /\ row.date = loc[p].resp.fee_status.today
        /\ loc[p].resp.fee_status.fee_status = "Paid"

\* room r of store d has no free bed
Full(d, r) == d.Rooms[r].exists /\ Beds(Occupancy(d, r)) = d.Rooms[r].capacity

\* C15: assigning an existing resident who has no room to a room whose occupancy
\* equals its capacity fails with "Room is full" (400); no Assignment is created
\* and the room's occupancy stays as it was.
C15_FullRoomRefused ==
    \A p \in Procs :
        ( /\ Done(p, "allocate")
          /\ loc[p].student_id \in pre.Students
          /\ AllocationsOf(pre, loc[p].student_id) = {}
          /\ Full(pre, loc[p].room_id) )
        => /\ loc[p].resp.status = 400
           /\ loc[p].resp.message = "Room is full"
           /\ AllocationsOf(db, loc[p].student_id) = {}
           /\ Occupancy(db, loc[p].room_id) = Occupancy(pre, loc[p].room_id)
           /\ db = pre

\* C15 witness: the room of capacity 1 is occupied and a second resident is turned away.
C15_Witness ==
    \E p \in Procs :
        /\ Done(p, "allocate")
        /\ AllocationsOf(pre, loc[p].student_id) = {}
        /\ pre.Rooms[loc[p].room_id].capacity = Beds(1)
        /\ Occupancy(db, loc[p].room_id) = 1
        /\ loc[p].resp.message = "Room is full"

\* C16: a transfer of a resident to the room the resident already lives in fails
\* with "Student is already in this room" (400), whether or not that room is
\* full; the store, and with it the room's occupancy and the Assignment's room
\* and date, stays as it was.
C16_SameRoomTransferRefused ==
    \A p \in Procs :
        ( /\ Done(p, "transfer")
          /\ \E a \in AllocationsOf(pre, loc[p].student_id) : a.room_id = loc[p].room_id )
        => /\ loc[p].resp.status = 400
           /\ loc[p].resp.message = "Student is already in this room"
           /\ Occupancy(db, loc[p].room_id) = Occupancy(pre, loc[p].room_id)
           /\ AllocationsOf(db, loc[p].student_id) = AllocationsOf(pre, loc[p].student_id)
           /\ db = pre

\* C16 witness: the resident of a full room asks to be moved into that room.
C16_Witness ==
    \E p \in Procs :
        /\ Done(p, "transfer")
        /\ \E a \in AllocationsOf(db, loc[p].student_id) : a.room_id = loc[p].room_id
        /\ Full(db, loc[p].room_id)
        /\ loc[p].resp.message = "Student is already in this room"

\* request p is a billing request for a registered resident who has no room
BillingOfUnassigned(p) ==
    /\ pc[p] = "done"
    /\ loc[p].op \in {"feeStatus", "addPayment"}
    /\ loc[p].student_id \in pre.Students
    /\ AllocationsOf(pre, loc[p].student_id) = {}

NotAllocated == "Student must be allocated to a room before paying fees"

\* C17 as stated: for a registered resident with no active Assignment, the fee
\* status and a payment of any amount fail with the precondition error, and the
\* payment inserts no Payment.
C17_UnassignedRefusedAsStated ==
    \A p \in Procs :
        BillingOfUnassigned(p)
        => /\ loc[p].resp.status = 400
           /\ loc[p].resp.message = NotAllocated
           /\ db = pre

\* C17: for a registered resident with no active Assignment, the fee status and
\* a payment of an amount above 0 and at most MAX_MONTHLY_FEE fail with the
\* precondition error; a payment of any other amount fails with "Invalid payment
\* amount"; in every case the status is 400 and the store is unchanged.
C17_UnassignedRefused ==
    \A p \in Procs :
        BillingOfUnassigned(p)
        => /\ loc[p].resp.status = 400
           /\ IF loc[p].op = "addPayment"
                 /\ (loc[p].amount <= 0 \/ loc[p].amount > PKR(MAX_MONTHLY_FEE))
              THEN loc[p].resp.message = "Invalid payment amount"
              ELSE loc[p].resp.message = NotAllocated
           /\ db.Payments = pre.Payments
           /\ db = pre

\* C17 witness: a resident without a room was refused the fee status and then a
\* payment of 5000.
C17_Witness ==
    \E p \in Procs :
        /\ BillingOfUnassigned(p)
        /\ loc[p].op = "addPayment"
        /\ "feeStatus" \in ops
        /\ loc[p].amount = PKR(5000)
        /\ loc[p].resp.message = NotAllocated

\* the snapshot of resident s computed from store d for the given day
SnapshotOf(d, s, day) ==
    FeeSnapshot(s, CHOOSE row \in JoinedAllocations(d, s) : TRUE,
                LastPaymentDate(d, s), [day |-> day, ms |-> 0])

\* C18: a fee-status request writes nothing, and its answer is a function of the
\* resident's room, fee, last payment and the day alone: whatever the time of
\* day and whatever was asked before, it is the snapshot computed from the store
\* for that day, so two requests over the same store on the same day agree in
\* every field.
C18_FeeStatusPureRead ==
    \A p \in Procs :
        Done(p, "feeStatus")
        => LET s == loc[p].student_id
               x == loc[p].resp.fee_status
           IN  /\ db = pre
               /\ loc[p].resp.status = 200 <=> HasSnapshot(pre, s)
               /\ loc[p].resp.status = 200
                  => /\ x.today \in (today - MaxTicks)..today
                     /\ x = SnapshotOf(pre, s, x.today)

\* C18 witness: the second of two fee-status requests, for a resident who is late.
C18_Witness ==
    \E p \in Procs :
        /\ Accepted(p, "feeStatus")
        /\ nreq = 2
        /\ ops = {"feeStatus"}
        /\ loc[p].resp.fee_status.days_late > 0

\* store d without resident s: the resident's record, Assignment, Payments and
\* Complaints are gone and the resident's room has one occupant fewer (not below 0)
Released(d, s) ==
    [d EXCEPT !.Students = @ \ {s},
              !.Allocations = @ \ AllocationsOf(d, s),
              !.Payments = @ \ PaymentsOf(d, s),
              !.Complaints = {c \in @ : c.student_id # s},
              !.Rooms = [r \in RoomIds |->
                           IF AllocationsOf(d, s) \cap AllocationsIn(d, r) # {}
                              /\ Occupancy(d, r) > 0
                           THEN [d.Rooms[r] EXCEPT !.current_occupancy = @ - 1]
                           ELSE d.Rooms[r]]]

C20_PaymentLogAppendOnly ==
    [][ /\ \A x \in db.Payments :
             x \in db'.Payments
             \/ \E p \in Procs : /\ loc[p].op = "deleteStudent"
                                 /\ loc[p].student_id = x.student_id
                                 /\ pc[p] = "delete_dependent_payments"
                                 /\ pc'[p] = "delete_dependent_complaints"
        /\ \A p \in Procs :
             (loc[p].op = "addPayment" /\ pc'[p] \notin {pc[p], "crashed"})
             => \/ db'.Payments = db.Payments
                \/ \E row \in db'.Payments \ db.Payments :
                      db'.Payments = db.Payments \cup {row} ]_vars

\* store d after resident s has moved to room new on the given day: the
\* resident's Assignment names the new room and the day, the old room has one
\* occupant fewer and the new room one more
Transferred(d, s, new, day) ==
    LET old == RoomOf(d, s)
    IN  [d EXCEPT !.Allocations = {IF a.student_id = s
                                   THEN [a EXCEPT !.room_id = new, !.allocation_date = day]
                                   ELSE a : a \in @},
                  !.Rooms = [r \in RoomIds |->
                               IF r = old
                               THEN [d.Rooms[r] EXCEPT !.current_occupancy = @ - 1]
                               ELSE IF r = new
                               THEN [d.Rooms[r] EXCEPT !.current_occupancy = @ + 1]
                               ELSE d.Rooms[r]]]

\* C21: a transfer that runs alone and succeeds lowers the old room's occupancy
\* by 1, raises the new room's by 1, makes the resident's one Assignment name the
\* new room with today's date, changes nothing else in the store, and answers
\* with from_room_id = the old room and to_room_id = the new room.
C21_TransferEffect ==
    \A p \in Procs :
        Accepted(p, "transfer")
        => LET s == loc[p].student_id
               new == loc[p].room_id
           IN  /\ Cardinality(AllocationsOf(pre, s)) = 1
               /\ RoomOf(pre, s) # new
               /\ Occupancy(db, RoomOf(pre, s)) = Occupancy(pre, RoomOf(pre, s)) - 1
               /\ Occupancy(db, new) = Occupancy(pre, new) + 1
               /\ db = Transferred(pre, s, new, today)
               /\ loc[p].resp.from_room_id = RoomOf(pre, s)
               /\ loc[p].resp.to_room_id = new

\* C21 witness: a resident moved between rooms while the other resident stayed put.
C21_Witness ==
    \E p \in Procs :
        /\ Accepted(p, "transfer")
        /\ \E a \in AllocationsOf(db, loc[p].student_id) :
              a.room_id = loc[p].room_id /\ a.allocation_date = today
        /\ \E a \in db.Allocations : a.student_id # loc[p].student_id
        /\ Occupancy(db, loc[p].resp.from_room_id) = Occupancy(pre, loc[p].resp.from_room_id) - 1

\* C22: an assign request that fails leaves the store as it was when the request
\* arrived: no Assignment for the resident has been added and the room's
\* occupancy is unchanged, also when the statement that fails is the occupancy
\* increment after the Assignment row has been inserted.
C22_FailedAssignRestoresStore ==
    \A p \in Procs :
        (Done(p, "allocate") /\ loc[p].resp.status # 200)
        => /\ AllocationsOf(db, loc[p].student_id) = AllocationsOf(pre, loc[p].student_id)
           /\ Occupancy(db, loc[p].room_id) = Occupancy(pre, loc[p].room_id)
           /\ db = pre

\* request p, of kind op, is answered in this step
Answers(p, op) ==
    /\ loc'[p].op = op
    /\ pc'[p] = "done"
    /\ pc[p] \notin {"idle", "done"} \/ (nreq' # nreq /\ loc'[p] # loc[p])

\* C23: a resize to a capacity below the room's occupancy is refused with
\* "Capacity cannot be less than current occupancy" (400) and leaves the room's
\* capacity and occupancy as they were; a resize that is answered with success
\* leaves the room with capacity >= occupancy.
C23_ResizeKeepsOccupancyWithinCapacity ==
    [][ \A p \in Procs :
          LET r == loc'[p].room_id
          IN  ( /\ Answers(p, "updateRoom")
                /\ loc'[p].capacity # Null
                /\ db.Rooms[r].exists )
              => /\ loc'[p].capacity < Beds(Occupancy(db, r))
                    => /\ loc'[p].resp.status = 400
                       /\ loc'[p].resp.message = "Capacity cannot be less than current occupancy"
                       /\ db'.Rooms[r] = db.Rooms[r]
                 /\ loc'[p].resp.status = 200
                    => db'.Rooms[r].capacity >= Beds(Occupancy(db', r)) ]_vars

\* C24: a room deletion for a room with occupancy above 0 is refused with "Cannot
\* delete a room with allocated students" (400) and changes nothing, and a room
\* leaves the store only in a step in which its occupancy is 0.
C24_OnlyEmptyRoomsDeleted ==
    [][ /\ \A p \in Procs :
             ( /\ Answers(p, "deleteRoom")
               /\ db.Rooms[loc'[p].room_id].exists
               /\ Occupancy(db, loc'[p].room_id) > 0 )
             => /\ loc'[p].resp.status = 400
                /\ loc'[p].resp.message = "Cannot delete a room with allocated students"
                /\ db' = db
        /\ \A r \in RoomIds :
             (db.Rooms[r].exists /\ ~db'.Rooms[r].exists) => Occupancy(db, r) = 0 ]_vars

\* C25: with one request at a time and no storage failure, whenever no request is
\* in flight every room's occupancy equals the number of Assignments that
\* reference it and lies between 0 and the room's capacity, and every resident
\* has at most one Assignment.
C25_SerialStoreConsistent ==
    Quiescent
    => /\ \A r \in RoomIds :
            db.Rooms[r].exists
            => /\ Occupancy(db, r) = Cardinality(AllocationsIn(db, r))
               /\ 0 <= Occupancy(db, r)
               /\ Beds(Occupancy(db, r)) <= db.Rooms[r].capacity
       /\ \A s \in StudentIds : Cardinality(AllocationsOf(db, s)) <= 1

\* no release of resident s has been answered with success
NotReleased(s) ==
    \A q \in Procs : ~(Accepted(q, "deleteStudent") /\ loc[q].student_id = s)

\* C26: once no request is in flight, the Assignment row inserted by an assign
\* that was answered with success, and the Payment row inserted by a payment that
\* was answered with success, are in the store (unless the resident has been
\* released since), also when a transfer or a release that overlapped with them
\* was rolled back.
C26_AcknowledgedRowsKept ==
    \A p \in Procs :
        (Quiescent /\ NotReleased(loc[p].student_id))
        => /\ Accepted(p, "allocate")
              => \E a \in AllocationsOf(db, loc[p].student_id) :
                    a.allocation_id = loc[p].lastID
           /\ Accepted(p, "addPayment")
              => \E x \in PaymentsOf(db, loc[p].student_id) :
                    x.payment_id = loc[p].resp.id

\* C27: whenever no request is in flight, every Assignment references a room
\* that exists and a resident that exists.
C27_AssignmentsReferenceExistingRows ==
    Quiescent
    => \A a \in db.Allocations :
          /\ a.room_id \in RoomIds
          /\ db.Rooms[a.room_id].exists
          /\ a.student_id \in db.Students

\* C28: for a resident with an active Assignment the fee status is a snapshot,
\* not an error, whatever fee the room's validation has accepted, a monthly_fee
\* of 0 included.
C28_SnapshotForEveryValidFee ==
    \A p \in Procs :
        ( /\ Done(p, "feeStatus")
          /\ loc[p].student_id \in pre.Students
          /\ JoinedAllocations(pre, loc[p].student_id) # {} )
        => /\ loc[p].resp.status = 200
           /\ loc[p].resp.fee_status # NoSnapshot

\* C29: a successful transfer changes no Payment, and the resident's snapshot for
\* today has the same last payment date, due date, days late and fine after the
\* transfer as before it, while its monthly fee is the new room's fee and its
\* total payable is that fee plus the fine.
C29_TransferKeepsBillingCycle ==
    \A p \in Procs :
        LET s == loc[p].student_id
            before == SnapshotOf(pre, s, today)
            after == SnapshotOf(db, s, today)
        IN  Accepted(p, "transfer")
            => /\ db.Payments = pre.Payments
               /\ (HasSnapshot(pre, s) /\ HasSnapshot(db, s))
                  => /\ after.last_payment_date = before.last_payment_date
                     /\ after.due_date = before.due_date
                     /\ after.days_late = before.days_late
                     /\ after.fine = before.fine
                     /\ after.monthly_fee = db.Rooms[loc[p].room_id].monthly_fee
                     /\ after.total_payable = after.monthly_fee + after.fine

\* C29 witness: a resident who is late with the rent moves to a room with another fee.
C29_Witness ==
    \E p \in Procs :
        /\ Accepted(p, "transfer")
        /\ HasSnapshot(pre, loc[p].student_id)
        /\ HasSnapshot(db, loc[p].student_id)
        /\ SnapshotOf(db, loc[p].student_id, today).fine > 0
        /\ SnapshotOf(db, loc[p].student_id, today).monthly_fee
              # SnapshotOf(pre, loc[p].student_id, today).monthly_fee

\* C30: an accepted payment of a resident who had paid before moves the due date
\* forward: the due date of the snapshot returned with the answer is later than
\* the due date of the snapshot the amount was compared with, also when the
\* payment comes before the due date, while the status is Paid.
C30_PaymentAdvancesDueDate ==
    \A p \in Procs :
        ( /\ Accepted(p, "addPayment")
          /\ loc[p].snapshot # NoSnapshot
          /\ loc[p].resp.fee_status # NoSnapshot
          /\ loc[p].snapshot.last_payment_date # Null )
        => loc[p].resp.fee_status.due_date > loc[p].snapshot.due_date

====
